---- MODULE Spec2Model ----
(***************************************************************************)
(* A model of the token ledger of src/src: the record codec of state.rs    *)
(* and the six operations of processor.rs.                                 *)
(*                                                                         *)
(* A Pubkey is modelled by its 32 bytes; Key(n) is the key [n; 32] and     *)
(* Key(0) the all-zero key of a zero-filled buffer.  A u64 is              *)
(* modelled by a natural in 0..U64_MAX, a scaled-down u64::MAX, with the   *)
(* checked arithmetic of the code.  A record buffer is kept in the view    *)
(* array_refs! gives of it: its length and the fixed-width fields of the   *)
(* layout, the 36-byte optional key as its 4-byte tag and its 32-byte body.*)
(***************************************************************************)
EXTENDS Integers, Sequences, FiniteSets, TLC

\* ------------------------------------------------------------------ bounds
\* The largest value of the modelled u64 (u64::MAX, scaled down).
U64_MAX == 2

\* ------------------------------------------------------------- environment
\* Addresses of the record buffers the environment allocated, of the wallets
\* that own, sign and are delegated to, and of the rent sysvar.
\* Pubkey::new(&[n; 32]): the key whose 32 bytes are all n.
Key(n) == [i \in 1..32 |-> n]

MintKeys == {Key(1), Key(2)}
AccountKeys == {Key(3), Key(4)}
Wallets == {Key(5), Key(6)}
\* sysvar::rent::id(), SysvarRent111111111111111111111111111111111.
SysvarRentId ==
    <<6, 167, 213, 23, 25, 44, 92, 81, 33, 140, 201, 76, 61, 74, 241, 127,
      88, 218, 238, 8, 155, 161, 253, 68, 227, 219, 217, 138, 0, 0, 0, 0>>
RecordKeys == MintKeys \cup AccountKeys

U64 == 0..U64_MAX
DecimalsSet == {2}
MintAuthorities == {Key(5)}

Mint_LEN == 46
Account_LEN == 117

\* ------------------------------------------------------------------ values
Ok(v) == [ok |-> TRUE, val |-> v]
Err(e) == [ok |-> FALSE, err |-> e]

COption_None == [some |-> FALSE]
COption_Some(k) == [some |-> TRUE, key |-> k]

\* checked_add wrapping instead of failing.
checked_add_Wrapping(a, b) == Ok((a + b) % (U64_MAX + 1))

checked_add(a, b) == IF a + b > U64_MAX THEN Err("Overflow") ELSE Ok(a + b)
\* checked_sub failing when nothing would be left.
checked_sub_Strict(a, b) == IF a <= b THEN Err("Overflow") ELSE Ok(a - b)

checked_sub(a, b) == IF a < b THEN Err("Overflow") ELSE Ok(a - b)

\* ------------------------------------------------------------ record codec
ZeroTag == <<0, 0, 0, 0>>
SomeTag == <<1, 0, 0, 0>>
ZeroCOptionBytes == [tag |-> ZeroTag, body |-> Key(0)]

\* The zero-filled buffers the environment hands out.
ZeroMintBuf ==
    [len |-> Mint_LEN, mint_authority |-> ZeroCOptionBytes, supply |-> 0,
     decimals |-> 0, is_initialized |-> 0]
ZeroAccountBuf ==
    [len |-> Account_LEN, mint |-> Key(0), owner |-> Key(0), amount |-> 0,
     delegate |-> ZeroCOptionBytes, delegated_amount |-> 0, state |-> 0]
EmptyBuf == [len |-> 0]

\* pack_coption_key writing the tag of a present key and not its body.
pack_coption_key_TagOnly(src, dst) ==
    IF src.some
    THEN [tag |-> SomeTag, body |-> dst.body]
    ELSE [tag |-> ZeroTag, body |-> dst.body]

pack_coption_key(src, dst) ==
    IF src.some
    THEN [tag |-> SomeTag, body |-> src.key]
    ELSE [tag |-> ZeroTag, body |-> dst.body]

unpack_coption_key(src) ==
    IF src.tag = ZeroTag THEN Ok(COption_None)
    ELSE IF src.tag = SomeTag THEN Ok(COption_Some(src.body))
    ELSE Err("InvalidAccountData")

Mint_unpack_from_slice(src) ==
    LET mint_authority == unpack_coption_key(src.mint_authority) IN
    IF ~mint_authority.ok THEN mint_authority
    ELSE IF src.is_initialized \notin {0, 1} THEN Err("InvalidAccountData")
    ELSE Ok([mint_authority |-> mint_authority.val,
             supply |-> src.supply,
             decimals |-> src.decimals,
             is_initialized |-> (src.is_initialized = 1)])

\* Mint_pack_into_slice with the last two bytes in the other order.
Mint_pack_into_slice_FlagBeforeDecimals(self, dst) ==
    [len |-> dst.len,
     mint_authority |-> pack_coption_key(self.mint_authority, dst.mint_authority),
     supply |-> self.supply,
     decimals |-> IF self.is_initialized THEN 1 ELSE 0,
     is_initialized |-> self.decimals]

\* Mint_pack_into_slice writing decimals over the supply bytes.
Mint_pack_into_slice_SupplyFromDecimals(self, dst) ==
    [len |-> dst.len,
     mint_authority |-> pack_coption_key(self.mint_authority, dst.mint_authority),
     supply |-> self.decimals,
     decimals |-> self.decimals,
     is_initialized |-> IF self.is_initialized THEN 1 ELSE 0]

\* Mint_pack_into_slice leaving the supply bytes as they were.
Mint_pack_into_slice_KeepsSupply(self, dst) ==
    [len |-> dst.len,
     mint_authority |-> pack_coption_key(self.mint_authority, dst.mint_authority),
     supply |-> dst.supply,
     decimals |-> self.decimals,
     is_initialized |-> IF self.is_initialized THEN 1 ELSE 0]

Mint_pack_into_slice(self, dst) ==
    [len |-> dst.len,
     mint_authority |-> pack_coption_key(self.mint_authority, dst.mint_authority),
     supply |-> self.supply,
     decimals |-> self.decimals,
     is_initialized |-> IF self.is_initialized THEN 1 ELSE 0]

AccountState_try_from_primitive(b) ==
    IF b = 0 THEN Ok("Uninitialized")
    ELSE IF b = 1 THEN Ok("Initialized")
    ELSE Err("InvalidAccountData")

AccountState_as_u8(s) == IF s = "Initialized" THEN 1 ELSE 0

\* Account_unpack_from_slice reading the owner from the mint bytes.
Account_unpack_from_slice_OwnerFromMint(src) ==
    LET delegate == unpack_coption_key(src.delegate)
        state == AccountState_try_from_primitive(src.state) IN
    IF ~delegate.ok THEN delegate
    ELSE IF ~state.ok THEN state
    ELSE Ok([mint |-> src.mint,
             owner |-> src.mint,
             amount |-> src.amount,
             delegate |-> delegate.val,
             delegated_amount |-> src.delegated_amount,
             state |-> state.val])

Account_unpack_from_slice(src) ==
    LET delegate == unpack_coption_key(src.delegate)
        state == AccountState_try_from_primitive(src.state) IN
    IF ~delegate.ok THEN delegate
    ELSE IF ~state.ok THEN state
    ELSE Ok([mint |-> src.mint,
             owner |-> src.owner,
             amount |-> src.amount,
             delegate |-> delegate.val,
             delegated_amount |-> src.delegated_amount,
             state |-> state.val])

Account_pack_into_slice(self, dst) ==
    [len |-> dst.len,
     mint |-> self.mint,
     owner |-> self.owner,
     amount |-> self.amount,
     delegate |-> pack_coption_key(self.delegate, dst.delegate),
     delegated_amount |-> self.delegated_amount,
     state |-> AccountState_as_u8(self.state)]

Mint_is_initialized(self) == self.is_initialized
Account_is_initialized(self) == self.state # "Uninitialized"

\* Pack::unpack_unchecked, Pack::unpack and Pack::pack, as the processor uses
\* them on Mint and Account.
Mint_unpack_unchecked(input) ==
    IF input.len # Mint_LEN THEN Err("InvalidAccountData")
    ELSE Mint_unpack_from_slice(input)

\* Mint_unpack without the is_initialized check.
Mint_unpack_Tolerant(input) == Mint_unpack_unchecked(input)

Mint_unpack(input) ==
    LET value == Mint_unpack_unchecked(input) IN
    IF ~value.ok THEN value
    ELSE IF Mint_is_initialized(value.val) THEN value
    ELSE Err("UninitializedAccount")

Mint_pack(src, dst) ==
    IF dst.len # Mint_LEN THEN Err("InvalidAccountData")
    ELSE Ok(Mint_pack_into_slice(src, dst))

Account_unpack_unchecked(input) ==
    IF input.len # Account_LEN THEN Err("InvalidAccountData")
    ELSE Account_unpack_from_slice(input)

Account_unpack(input) ==
    LET value == Account_unpack_unchecked(input) IN
    IF ~value.ok THEN value
    ELSE IF Account_is_initialized(value.val) THEN value
    ELSE Err("UninitializedAccount")

Account_pack(src, dst) ==
    IF dst.len # Account_LEN THEN Err("InvalidAccountData")
    ELSE Ok(Account_pack_into_slice(src, dst))

\* The bytes of the buffers: the fields in the order and the widths of the
\* layout, a key as its 32 bytes and a u64 as its 8 little-endian bytes.
Pubkey_as_ref(k) == [i \in 1..32 |-> k[i]]

RECURSIVE le_bytes(_, _)
le_bytes(n, width) ==
    IF width = 0 THEN <<>> ELSE <<n % 256>> \o le_bytes(n \div 256, width - 1)

u64_to_le_bytes(n) == le_bytes(n, 8)

COption_bytes(c) == c.tag \o Pubkey_as_ref(c.body)

Mint_bytes(buf) ==
    COption_bytes(buf.mint_authority) \o u64_to_le_bytes(buf.supply)
        \o <<buf.decimals>> \o <<buf.is_initialized>>

Account_bytes(buf) ==
    Pubkey_as_ref(buf.mint) \o Pubkey_as_ref(buf.owner) \o u64_to_le_bytes(buf.amount)
        \o COption_bytes(buf.delegate) \o u64_to_le_bytes(buf.delegated_amount)
        \o <<buf.state>>

\* ----------------------------------------------------------------- handles
\* An AccountInfo: its key, its signer flag and whether its lamports make its
\* data rent-exempt; its data is the buffer the ledger keeps at that key.
AccountInfo(k, s, r) == [key |-> k, is_signer |-> s, rent_exempt |-> r]

DataOf(bufs, k) == IF k \in DOMAIN bufs THEN bufs[k] ELSE EmptyBuf

\* The outcome of an operation: its result and the buffers it leaves.
Reject(e, bufs) == [result |-> e, data |-> bufs]
Accept(bufs) == [result |-> "Ok", data |-> bufs]

Rent_from_account_info(info) ==
    IF info.key # SysvarRentId THEN Err("InvalidArgument") ELSE Ok(info.key)

Rent_is_exempt(info) == info.rent_exempt

\* validate_owner without the is_signer check.
validate_owner_AnySigner(expected_owner, owner_account_info) ==
    IF expected_owner # owner_account_info.key THEN Err("OwnerMismatch")
    ELSE Ok(TRUE)

validate_owner(expected_owner, owner_account_info) ==
    IF expected_owner # owner_account_info.key THEN Err("OwnerMismatch")
    ELSE IF ~owner_account_info.is_signer THEN Err("MissingRequiredSignature")
    ELSE Ok(TRUE)

\* --------------------------------------------------------------- processor
process_initialize_mint(bufs, accounts, decimals, mint_authority) ==
    IF Len(accounts) < 2 THEN Reject("NotEnoughAccountKeys", bufs)
    ELSE
    LET mint_info == accounts[1]
        rent == Rent_from_account_info(accounts[2])
        mint == Mint_unpack_unchecked(DataOf(bufs, mint_info.key))
    IN
    IF ~rent.ok THEN Reject(rent.err, bufs)
    ELSE IF ~mint.ok THEN Reject(mint.err, bufs)
    ELSE IF mint.val.is_initialized THEN Reject("AlreadyInUse", bufs)
    ELSE IF ~Rent_is_exempt(mint_info) THEN Reject("NotRentExempt", bufs)
    ELSE
    LET mint1 == [mint.val EXCEPT !.mint_authority = COption_Some(mint_authority),
                                  !.decimals = decimals,
                                  !.is_initialized = TRUE]
        packed == Mint_pack(mint1, DataOf(bufs, mint_info.key))
    IN
    IF ~packed.ok THEN Reject(packed.err, bufs)
    ELSE Accept([bufs EXCEPT ![mint_info.key] = packed.val])

\* process_initialize_account without the AlreadyInUse check.
process_initialize_account_NoInUseCheck(bufs, accounts) ==
    IF Len(accounts) < 4 THEN Reject("NotEnoughAccountKeys", bufs)
    ELSE
    LET new_account_info == accounts[1]
        mint_info == accounts[2]
        owner == accounts[3].key
        rent == Rent_from_account_info(accounts[4])
        account == Account_unpack_unchecked(DataOf(bufs, new_account_info.key))
    IN
    IF ~rent.ok THEN Reject(rent.err, bufs)
    ELSE IF ~account.ok THEN Reject(account.err, bufs)
    ELSE IF ~Rent_is_exempt(new_account_info) THEN Reject("NotRentExempt", bufs)
    ELSE IF ~Mint_unpack(DataOf(bufs, mint_info.key)).ok THEN Reject("InvalidMint", bufs)
    ELSE
    LET account1 == [account.val EXCEPT !.mint = mint_info.key,
                                        !.owner = owner,
                                        !.delegate = COption_None,
                                        !.delegated_amount = 0,
                                        !.state = "Initialized",
                                        !.amount = 0]
        packed == Account_pack(account1, DataOf(bufs, new_account_info.key))
    IN
    IF ~packed.ok THEN Reject(packed.err, bufs)
    ELSE Accept([bufs EXCEPT ![new_account_info.key] = packed.val])

\* process_initialize_account without the strict decode of the mint record.
process_initialize_account_AnyMint(bufs, accounts) ==
    IF Len(accounts) < 4 THEN Reject("NotEnoughAccountKeys", bufs)
    ELSE
    LET new_account_info == accounts[1]
        mint_info == accounts[2]
        owner == accounts[3].key
        rent == Rent_from_account_info(accounts[4])
        account == Account_unpack_unchecked(DataOf(bufs, new_account_info.key))
    IN
    IF ~rent.ok THEN Reject(rent.err, bufs)
    ELSE IF ~account.ok THEN Reject(account.err, bufs)
    ELSE IF Account_is_initialized(account.val) THEN Reject("AlreadyInUse", bufs)
    ELSE IF ~Rent_is_exempt(new_account_info) THEN Reject("NotRentExempt", bufs)
    ELSE
    LET account1 == [account.val EXCEPT !.mint = mint_info.key,
                                        !.owner = owner,
                                        !.delegate = COption_None,
                                        !.delegated_amount = 0,
                                        !.state = "Initialized",
                                        !.amount = 0]
        packed == Account_pack(account1, DataOf(bufs, new_account_info.key))
    IN
    IF ~packed.ok THEN Reject(packed.err, bufs)
    ELSE Accept([bufs EXCEPT ![new_account_info.key] = packed.val])

process_initialize_account(bufs, accounts) ==
    IF Len(accounts) < 4 THEN Reject("NotEnoughAccountKeys", bufs)
    ELSE
    LET new_account_info == accounts[1]
        mint_info == accounts[2]
        owner == accounts[3].key
        rent == Rent_from_account_info(accounts[4])
        account == Account_unpack_unchecked(DataOf(bufs, new_account_info.key))
    IN
    IF ~rent.ok THEN Reject(rent.err, bufs)
    ELSE IF ~account.ok THEN Reject(account.err, bufs)
    ELSE IF Account_is_initialized(account.val) THEN Reject("AlreadyInUse", bufs)
    ELSE IF ~Rent_is_exempt(new_account_info) THEN Reject("NotRentExempt", bufs)
    ELSE IF ~Mint_unpack(DataOf(bufs, mint_info.key)).ok THEN Reject("InvalidMint", bufs)
    ELSE
    LET account1 == [account.val EXCEPT !.mint = mint_info.key,
                                        !.owner = owner,
                                        !.delegate = COption_None,
                                        !.delegated_amount = 0,
                                        !.state = "Initialized",
                                        !.amount = 0]
        packed == Account_pack(account1, DataOf(bufs, new_account_info.key))
    IN
    IF ~packed.ok THEN Reject(packed.err, bufs)
    ELSE Accept([bufs EXCEPT ![new_account_info.key] = packed.val])

\* transfer_authority leaving the allowance as it was.
transfer_authority_KeepsAllowance(source_account, authority_info, amount) ==
    IF source_account.delegate.some
       /\ authority_info.key = source_account.delegate.key
    THEN
        LET v == validate_owner(source_account.delegate.key, authority_info) IN
        IF ~v.ok THEN v
        ELSE IF source_account.delegated_amount < amount THEN Err("InsufficientFunds")
        ELSE Ok(source_account)
    ELSE
        LET v == validate_owner(source_account.owner, authority_info) IN
        IF ~v.ok THEN v ELSE Ok(source_account)

\* transfer_authority never clearing the delegate.
transfer_authority_KeepsDelegate(source_account, authority_info, amount) ==
    IF source_account.delegate.some
       /\ authority_info.key = source_account.delegate.key
    THEN
        LET v == validate_owner(source_account.delegate.key, authority_info) IN
        IF ~v.ok THEN v
        ELSE IF source_account.delegated_amount < amount THEN Err("InsufficientFunds")
        ELSE
        LET d == checked_sub(source_account.delegated_amount, amount) IN
        IF ~d.ok THEN d
        ELSE Ok([source_account EXCEPT !.delegated_amount = d.val])
    ELSE
        LET v == validate_owner(source_account.owner, authority_info) IN
        IF ~v.ok THEN v ELSE Ok(source_account)

\* The match on source_account.delegate of process_transfer: the source
\* account after the authority check, or the error.
transfer_authority(source_account, authority_info, amount) ==
    IF source_account.delegate.some
       /\ authority_info.key = source_account.delegate.key
    THEN
        LET v == validate_owner(source_account.delegate.key, authority_info) IN
        IF ~v.ok THEN v
        ELSE IF source_account.delegated_amount < amount THEN Err("InsufficientFunds")
        ELSE
        LET d == checked_sub(source_account.delegated_amount, amount) IN
        IF ~d.ok THEN d
        ELSE Ok([source_account EXCEPT
                   !.delegated_amount = d.val,
                   !.delegate = IF d.val = 0 THEN COption_None ELSE @])
    ELSE
        LET v == validate_owner(source_account.owner, authority_info) IN
        IF ~v.ok THEN v ELSE Ok(source_account)

\* The match on source_account.delegate of process_burn.
\* burn_authority clearing the delegate whatever allowance is left.
burn_authority_ClearsDelegate(source_account, authority_info, amount) ==
    IF source_account.delegate.some
       /\ authority_info.key = source_account.delegate.key
    THEN
        LET v == validate_owner(source_account.delegate.key, authority_info) IN
        IF ~v.ok THEN v
        ELSE IF source_account.delegated_amount < amount THEN Err("InsufficientFunds")
        ELSE
        LET d == checked_sub(source_account.delegated_amount, amount) IN
        IF ~d.ok THEN d
        ELSE Ok([source_account EXCEPT
                   !.delegated_amount = d.val,
                   !.delegate = COption_None])
    ELSE
        LET v == validate_owner(source_account.owner, authority_info) IN
        IF ~v.ok THEN v ELSE Ok(source_account)

burn_authority(source_account, authority_info, amount) ==
    IF source_account.delegate.some
       /\ authority_info.key = source_account.delegate.key
    THEN
        LET v == validate_owner(source_account.delegate.key, authority_info) IN
        IF ~v.ok THEN v
        ELSE IF source_account.delegated_amount < amount THEN Err("InsufficientFunds")
        ELSE
        LET d == checked_sub(source_account.delegated_amount, amount) IN
        IF ~d.ok THEN d
        ELSE Ok([source_account EXCEPT
                   !.delegated_amount = d.val,
                   !.delegate = IF d.val = 0 THEN COption_None ELSE @])
    ELSE
        LET v == validate_owner(source_account.owner, authority_info) IN
        IF ~v.ok THEN v ELSE Ok(source_account)

\* process_transfer writing the source back before it compares the two mints.
process_transfer_WritesSourceFirst(bufs, accounts, amount) ==
    IF Len(accounts) < 2 THEN Reject("NotEnoughAccountKeys", bufs)
    ELSE
    LET source_account_info == accounts[1]
        dest_account_info == accounts[2]
    IN
    IF source_account_info.key = dest_account_info.key THEN Reject("SelfTransfer", bufs)
    ELSE IF Len(accounts) < 3 THEN Reject("NotEnoughAccountKeys", bufs)
    ELSE
    LET authority_info == accounts[3]
        source_account == Account_unpack(DataOf(bufs, source_account_info.key))
        dest_account == Account_unpack(DataOf(bufs, dest_account_info.key))
    IN
    IF ~source_account.ok THEN Reject(source_account.err, bufs)
    ELSE IF ~dest_account.ok THEN Reject(dest_account.err, bufs)
    ELSE IF source_account.val.amount < amount THEN Reject("InsufficientFunds", bufs)
    ELSE
    LET authorized == transfer_authority(source_account.val, authority_info, amount) IN
    IF ~authorized.ok THEN Reject(authorized.err, bufs)
    ELSE
    LET source_amount == checked_sub(authorized.val.amount, amount)
        dest_amount == checked_add(dest_account.val.amount, amount)
    IN
    IF ~source_amount.ok THEN Reject(source_amount.err, bufs)
    ELSE IF ~dest_amount.ok THEN Reject(dest_amount.err, bufs)
    ELSE
    LET source1 == [authorized.val EXCEPT !.amount = source_amount.val]
        dest1 == [dest_account.val EXCEPT !.amount = dest_amount.val]
        packed_source == Account_pack(source1, DataOf(bufs, source_account_info.key))
    IN
    IF ~packed_source.ok THEN Reject(packed_source.err, bufs)
    ELSE
    LET bufs1 == [bufs EXCEPT ![source_account_info.key] = packed_source.val]
        packed_dest == Account_pack(dest1, DataOf(bufs1, dest_account_info.key))
    IN
    IF source_account.val.mint # dest_account.val.mint THEN Reject("MintMismatch", bufs1)
    ELSE IF ~packed_dest.ok THEN Reject(packed_dest.err, bufs1)
    ELSE Accept([bufs1 EXCEPT ![dest_account_info.key] = packed_dest.val])

\* process_transfer without the SelfTransfer check.
process_transfer_NoSelfCheck(bufs, accounts, amount) ==
    IF Len(accounts) < 2 THEN Reject("NotEnoughAccountKeys", bufs)
    ELSE
    LET source_account_info == accounts[1]
        dest_account_info == accounts[2]
    IN
    IF Len(accounts) < 3 THEN Reject("NotEnoughAccountKeys", bufs)
    ELSE
    LET authority_info == accounts[3]
        source_account == Account_unpack(DataOf(bufs, source_account_info.key))
        dest_account == Account_unpack(DataOf(bufs, dest_account_info.key))
    IN
    IF ~source_account.ok THEN Reject(source_account.err, bufs)
    ELSE IF ~dest_account.ok THEN Reject(dest_account.err, bufs)
    ELSE IF source_account.val.amount < amount THEN Reject("InsufficientFunds", bufs)
    ELSE IF source_account.val.mint # dest_account.val.mint THEN Reject("MintMismatch", bufs)
    ELSE
    LET authorized == transfer_authority(source_account.val, authority_info, amount) IN
    IF ~authorized.ok THEN Reject(authorized.err, bufs)
    ELSE
    LET source_amount == checked_sub(authorized.val.amount, amount)
        dest_amount == checked_add(dest_account.val.amount, amount)
    IN
    IF ~source_amount.ok THEN Reject(source_amount.err, bufs)
    ELSE IF ~dest_amount.ok THEN Reject(dest_amount.err, bufs)
    ELSE
    LET source1 == [authorized.val EXCEPT !.amount = source_amount.val]
        dest1 == [dest_account.val EXCEPT !.amount = dest_amount.val]
        packed_source == Account_pack(source1, DataOf(bufs, source_account_info.key))
    IN
    IF ~packed_source.ok THEN Reject(packed_source.err, bufs)
    ELSE
    LET bufs1 == [bufs EXCEPT ![source_account_info.key] = packed_source.val]
        packed_dest == Account_pack(dest1, DataOf(bufs1, dest_account_info.key))
    IN
    IF ~packed_dest.ok THEN Reject(packed_dest.err, bufs1)
    ELSE Accept([bufs1 EXCEPT ![dest_account_info.key] = packed_dest.val])

\* process_transfer comparing the mints before the balance.
process_transfer_MintCheckFirst(bufs, accounts, amount) ==
    IF Len(accounts) < 2 THEN Reject("NotEnoughAccountKeys", bufs)
    ELSE
    LET source_account_info == accounts[1]
        dest_account_info == accounts[2]
    IN
    IF source_account_info.key = dest_account_info.key THEN Reject("SelfTransfer", bufs)
    ELSE IF Len(accounts) < 3 THEN Reject("NotEnoughAccountKeys", bufs)
    ELSE
    LET authority_info == accounts[3]
        source_account == Account_unpack(DataOf(bufs, source_account_info.key))
        dest_account == Account_unpack(DataOf(bufs, dest_account_info.key))
    IN
    IF ~source_account.ok THEN Reject(source_account.err, bufs)
    ELSE IF ~dest_account.ok THEN Reject(dest_account.err, bufs)
    ELSE IF source_account.val.mint # dest_account.val.mint THEN Reject("MintMismatch", bufs)
    ELSE IF source_account.val.amount < amount THEN Reject("InsufficientFunds", bufs)
    ELSE
    LET authorized == transfer_authority(source_account.val, authority_info, amount) IN
    IF ~authorized.ok THEN Reject(authorized.err, bufs)
    ELSE
    LET source_amount == checked_sub(authorized.val.amount, amount)
        dest_amount == checked_add(dest_account.val.amount, amount)
    IN
    IF ~source_amount.ok THEN Reject(source_amount.err, bufs)
    ELSE IF ~dest_amount.ok THEN Reject(dest_amount.err, bufs)
    ELSE
    LET source1 == [authorized.val EXCEPT !.amount = source_amount.val]
        dest1 == [dest_account.val EXCEPT !.amount = dest_amount.val]
        packed_source == Account_pack(source1, DataOf(bufs, source_account_info.key))
    IN
    IF ~packed_source.ok THEN Reject(packed_source.err, bufs)
    ELSE
    LET bufs1 == [bufs EXCEPT ![source_account_info.key] = packed_source.val]
        packed_dest == Account_pack(dest1, DataOf(bufs1, dest_account_info.key))
    IN
    IF ~packed_dest.ok THEN Reject(packed_dest.err, bufs1)
    ELSE Accept([bufs1 EXCEPT ![dest_account_info.key] = packed_dest.val])

process_transfer(bufs, accounts, amount) ==
    IF Len(accounts) < 2 THEN Reject("NotEnoughAccountKeys", bufs)
    ELSE
    LET source_account_info == accounts[1]
        dest_account_info == accounts[2]
    IN
    IF source_account_info.key = dest_account_info.key THEN Reject("SelfTransfer", bufs)
    ELSE IF Len(accounts) < 3 THEN Reject("NotEnoughAccountKeys", bufs)
    ELSE
    LET authority_info == accounts[3]
        source_account == Account_unpack(DataOf(bufs, source_account_info.key))
        dest_account == Account_unpack(DataOf(bufs, dest_account_info.key))
    IN
    IF ~source_account.ok THEN Reject(source_account.err, bufs)
    ELSE IF ~dest_account.ok THEN Reject(dest_account.err, bufs)
    ELSE IF source_account.val.amount < amount THEN Reject("InsufficientFunds", bufs)
    ELSE IF source_account.val.mint # dest_account.val.mint THEN Reject("MintMismatch", bufs)
    ELSE
    LET authorized == transfer_authority(source_account.val, authority_info, amount) IN
    IF ~authorized.ok THEN Reject(authorized.err, bufs)
    ELSE
    LET source_amount == checked_sub(authorized.val.amount, amount)
        dest_amount == checked_add(dest_account.val.amount, amount)
    IN
    IF ~source_amount.ok THEN Reject(source_amount.err, bufs)
    ELSE IF ~dest_amount.ok THEN Reject(dest_amount.err, bufs)
    ELSE
    LET source1 == [authorized.val EXCEPT !.amount = source_amount.val]
        dest1 == [dest_account.val EXCEPT !.amount = dest_amount.val]
        packed_source == Account_pack(source1, DataOf(bufs, source_account_info.key))
    IN
    IF ~packed_source.ok THEN Reject(packed_source.err, bufs)
    ELSE
    LET bufs1 == [bufs EXCEPT ![source_account_info.key] = packed_source.val]
        packed_dest == Account_pack(dest1, DataOf(bufs1, dest_account_info.key))
    IN
    IF ~packed_dest.ok THEN Reject(packed_dest.err, bufs1)
    ELSE Accept([bufs1 EXCEPT ![dest_account_info.key] = packed_dest.val])

\* process_approve taking the owner handle from the second position.
process_approve_OwnerFromSecond(bufs, accounts, amount) ==
    IF Len(accounts) < 2 THEN Reject("NotEnoughAccountKeys", bufs)
    ELSE
    LET source_account_info == accounts[1]
        delegate_info == accounts[2]
        owner_info == accounts[2]
        source_account == Account_unpack(DataOf(bufs, source_account_info.key))
    IN
    IF ~source_account.ok THEN Reject(source_account.err, bufs)
    ELSE
    LET v == validate_owner(source_account.val.owner, owner_info) IN
    IF ~v.ok THEN Reject(v.err, bufs)
    ELSE
    LET source1 == [source_account.val EXCEPT
                      !.delegate = COption_Some(delegate_info.key),
                      !.delegated_amount = amount]
        packed == Account_pack(source1, DataOf(bufs, source_account_info.key))
    IN
    IF ~packed.ok THEN Reject(packed.err, bufs)
    ELSE Accept([bufs EXCEPT ![source_account_info.key] = packed.val])

\* process_approve adding the amount to the allowance.
process_approve_AddsAllowance(bufs, accounts, amount) ==
    IF Len(accounts) < 3 THEN Reject("NotEnoughAccountKeys", bufs)
    ELSE
    LET source_account_info == accounts[1]
        delegate_info == accounts[2]
        owner_info == accounts[3]
        source_account == Account_unpack(DataOf(bufs, source_account_info.key))
    IN
    IF ~source_account.ok THEN Reject(source_account.err, bufs)
    ELSE
    LET v == validate_owner(source_account.val.owner, owner_info) IN
    IF ~v.ok THEN Reject(v.err, bufs)
    ELSE
    LET source1 == [source_account.val EXCEPT
                      !.delegate = COption_Some(delegate_info.key),
                      !.delegated_amount = source_account.val.delegated_amount + amount]
        packed == Account_pack(source1, DataOf(bufs, source_account_info.key))
    IN
    IF ~packed.ok THEN Reject(packed.err, bufs)
    ELSE Accept([bufs EXCEPT ![source_account_info.key] = packed.val])

process_approve(bufs, accounts, amount) ==
    IF Len(accounts) < 3 THEN Reject("NotEnoughAccountKeys", bufs)
    ELSE
    LET source_account_info == accounts[1]
        delegate_info == accounts[2]
        owner_info == accounts[3]
        source_account == Account_unpack(DataOf(bufs, source_account_info.key))
    IN
    IF ~source_account.ok THEN Reject(source_account.err, bufs)
    ELSE
    LET v == validate_owner(source_account.val.owner, owner_info) IN
    IF ~v.ok THEN Reject(v.err, bufs)
    ELSE
    LET source1 == [source_account.val EXCEPT
                      !.delegate = COption_Some(delegate_info.key),
                      !.delegated_amount = amount]
        packed == Account_pack(source1, DataOf(bufs, source_account_info.key))
    IN
    IF ~packed.ok THEN Reject(packed.err, bufs)
    ELSE Accept([bufs EXCEPT ![source_account_info.key] = packed.val])

process_mint_to(bufs, accounts, amount) ==
    IF Len(accounts) < 3 THEN Reject("NotEnoughAccountKeys", bufs)
    ELSE
    LET mint_info == accounts[1]
        dest_account_info == accounts[2]
        owner_info == accounts[3]
        dest_account == Account_unpack(DataOf(bufs, dest_account_info.key))
    IN
    IF ~dest_account.ok THEN Reject(dest_account.err, bufs)
    ELSE IF mint_info.key # dest_account.val.mint THEN Reject("MintMismatch", bufs)
    ELSE
    LET mint == Mint_unpack(DataOf(bufs, mint_info.key)) IN
    IF ~mint.ok THEN Reject(mint.err, bufs)
    ELSE IF ~mint.val.mint_authority.some THEN Reject("FixedSupply", bufs)
    ELSE
    LET v == validate_owner(mint.val.mint_authority.key, owner_info) IN
    IF ~v.ok THEN Reject(v.err, bufs)
    ELSE
    LET dest_amount == checked_add(dest_account.val.amount, amount)
        supply == checked_add(mint.val.supply, amount)
    IN
    IF ~dest_amount.ok THEN Reject(dest_amount.err, bufs)
    ELSE IF ~supply.ok THEN Reject(supply.err, bufs)
    ELSE
    LET dest1 == [dest_account.val EXCEPT !.amount = dest_amount.val]
        mint1 == [mint.val EXCEPT !.supply = supply.val]
        packed_dest == Account_pack(dest1, DataOf(bufs, dest_account_info.key))
    IN
    IF ~packed_dest.ok THEN Reject(packed_dest.err, bufs)
    ELSE
    LET bufs1 == [bufs EXCEPT ![dest_account_info.key] = packed_dest.val]
        packed_mint == Mint_pack(mint1, DataOf(bufs1, mint_info.key))
    IN
    IF ~packed_mint.ok THEN Reject(packed_mint.err, bufs1)
    ELSE Accept([bufs1 EXCEPT ![mint_info.key] = packed_mint.val])

\* process_burn without the MintMismatch check.
process_burn_NoMintCheck(bufs, accounts, amount) ==
    IF Len(accounts) < 3 THEN Reject("NotEnoughAccountKeys", bufs)
    ELSE
    LET source_account_info == accounts[1]
        mint_info == accounts[2]
        authority_info == accounts[3]
        source_account == Account_unpack(DataOf(bufs, source_account_info.key))
    IN
    IF ~source_account.ok THEN Reject(source_account.err, bufs)
    ELSE IF source_account.val.amount < amount THEN Reject("InsufficientFunds", bufs)
    ELSE
    LET authorized == burn_authority(source_account.val, authority_info, amount) IN
    IF ~authorized.ok THEN Reject(authorized.err, bufs)
    ELSE
    LET source_amount == checked_sub(authorized.val.amount, amount) IN
    IF ~source_amount.ok THEN Reject(source_amount.err, bufs)
    ELSE
    LET mint == Mint_unpack(DataOf(bufs, mint_info.key)) IN
    IF ~mint.ok THEN Reject(mint.err, bufs)
    ELSE
    LET supply == checked_sub(mint.val.supply, amount) IN
    IF ~supply.ok THEN Reject(supply.err, bufs)
    ELSE
    LET source1 == [authorized.val EXCEPT !.amount = source_amount.val]
        mint1 == [mint.val EXCEPT !.supply = supply.val]
        packed_source == Account_pack(source1, DataOf(bufs, source_account_info.key))
    IN
    IF ~packed_source.ok THEN Reject(packed_source.err, bufs)
    ELSE
    LET bufs1 == [bufs EXCEPT ![source_account_info.key] = packed_source.val]
        packed_mint == Mint_pack(mint1, DataOf(bufs1, mint_info.key))
    IN
    IF ~packed_mint.ok THEN Reject(packed_mint.err, bufs1)
    ELSE Accept([bufs1 EXCEPT ![mint_info.key] = packed_mint.val])

process_burn(bufs, accounts, amount) ==
    IF Len(accounts) < 3 THEN Reject("NotEnoughAccountKeys", bufs)
    ELSE
    LET source_account_info == accounts[1]
        mint_info == accounts[2]
        authority_info == accounts[3]
        source_account == Account_unpack(DataOf(bufs, source_account_info.key))
    IN
    IF ~source_account.ok THEN Reject(source_account.err, bufs)
    ELSE IF source_account.val.amount < amount THEN Reject("InsufficientFunds", bufs)
    ELSE IF mint_info.key # source_account.val.mint THEN Reject("MintMismatch", bufs)
    ELSE
    LET authorized == burn_authority(source_account.val, authority_info, amount) IN
    IF ~authorized.ok THEN Reject(authorized.err, bufs)
    ELSE
    LET source_amount == checked_sub(authorized.val.amount, amount) IN
    IF ~source_amount.ok THEN Reject(source_amount.err, bufs)
    ELSE
    LET mint == Mint_unpack(DataOf(bufs, mint_info.key)) IN
    IF ~mint.ok THEN Reject(mint.err, bufs)
    ELSE
    LET supply == checked_sub(mint.val.supply, amount) IN
    IF ~supply.ok THEN Reject(supply.err, bufs)
    ELSE
    LET source1 == [authorized.val EXCEPT !.amount = source_amount.val]
        mint1 == [mint.val EXCEPT !.supply = supply.val]
        packed_source == Account_pack(source1, DataOf(bufs, source_account_info.key))
    IN
    IF ~packed_source.ok THEN Reject(packed_source.err, bufs)
    ELSE
    LET bufs1 == [bufs EXCEPT ![source_account_info.key] = packed_source.val]
        packed_mint == Mint_pack(mint1, DataOf(bufs1, mint_info.key))
    IN
    IF ~packed_mint.ok THEN Reject(packed_mint.err, bufs1)
    ELSE Accept([bufs1 EXCEPT ![mint_info.key] = packed_mint.val])

\* A decoded TokenInstruction.
InitializeMintIx(decimals, mint_authority) ==
    [tag |-> "InitializeMint", decimals |-> decimals, mint_authority |-> mint_authority]
InitializeAccountIx == [tag |-> "InitializeAccount"]
TransferIx(amount) == [tag |-> "Transfer", amount |-> amount]
ApproveIx(amount) == [tag |-> "Approve", amount |-> amount]
MintToIx(amount) == [tag |-> "MintTo", amount |-> amount]
BurnIx(amount) == [tag |-> "Burn", amount |-> amount]

\* The wire format of instruction.rs.  A Pubkey read from 32 bytes is those
\* 32 bytes.
Pubkey_new(bytes) == [i \in 1..32 |-> bytes[i]]

RECURSIVE u64_from_le_bytes(_)
u64_from_le_bytes(bytes) ==
    IF bytes = <<>> THEN 0 ELSE Head(bytes) + 256 * u64_from_le_bytes(Tail(bytes))

TokenInstruction_pack(self) ==
    CASE self.tag = "InitializeMint" ->
            <<0>> \o <<self.decimals>> \o Pubkey_as_ref(self.mint_authority)
      [] self.tag = "InitializeAccount" -> <<1>>
      [] self.tag = "Transfer" -> <<2>> \o u64_to_le_bytes(self.amount)
      [] self.tag = "Approve" -> <<3>> \o u64_to_le_bytes(self.amount)
      [] self.tag = "MintTo" -> <<4>> \o u64_to_le_bytes(self.amount)
      [] self.tag = "Burn" -> <<5>> \o u64_to_le_bytes(self.amount)

\* unpack_pubkey accepting exactly 32 bytes.
unpack_pubkey_ExactLength(input) ==
    IF Len(input) = 32
    THEN Ok([pk |-> Pubkey_new(SubSeq(input, 1, 32)),
             rest |-> SubSeq(input, 33, Len(input))])
    ELSE Err("InvalidInstruction")

unpack_pubkey(input) ==
    IF Len(input) >= 32
    THEN Ok([pk |-> Pubkey_new(SubSeq(input, 1, 32)),
             rest |-> SubSeq(input, 33, Len(input))])
    ELSE Err("InvalidInstruction")

\* TokenInstruction_unpack decoding tag 4 as Burn and tag 5 as MintTo.
TokenInstruction_unpack_SwapsMintToBurn(input) ==
    IF input = <<>> THEN Err("InvalidInstruction")
    ELSE
    LET tag == Head(input)
        rest == Tail(input) IN
    IF tag = 0 THEN
        IF rest = <<>> THEN Err("InvalidInstruction")
        ELSE LET decimals == Head(rest)
                 mint_authority == unpack_pubkey(Tail(rest)) IN
             IF ~mint_authority.ok THEN mint_authority
             ELSE Ok(InitializeMintIx(decimals, mint_authority.val.pk))
    ELSE IF tag = 1 THEN Ok(InitializeAccountIx)
    ELSE IF tag \in {2, 3, 4, 5} THEN
        IF Len(rest) < 8 THEN Err("InvalidInstruction")
        ELSE LET amount == u64_from_le_bytes(SubSeq(rest, 1, 8)) IN
             CASE tag = 2 -> Ok(TransferIx(amount))
               [] tag = 3 -> Ok(ApproveIx(amount))
               [] tag = 4 -> Ok(BurnIx(amount))
               [] tag = 5 -> Ok(MintToIx(amount))
    ELSE Err("InvalidInstruction")

TokenInstruction_unpack(input) ==
    IF input = <<>> THEN Err("InvalidInstruction")
    ELSE
    LET tag == Head(input)
        rest == Tail(input) IN
    IF tag = 0 THEN
        IF rest = <<>> THEN Err("InvalidInstruction")
        ELSE LET decimals == Head(rest)
                 mint_authority == unpack_pubkey(Tail(rest)) IN
             IF ~mint_authority.ok THEN mint_authority
             ELSE Ok(InitializeMintIx(decimals, mint_authority.val.pk))
    ELSE IF tag = 1 THEN Ok(InitializeAccountIx)
    ELSE IF tag \in {2, 3, 4, 5} THEN
        IF Len(rest) < 8 THEN Err("InvalidInstruction")
        ELSE LET amount == u64_from_le_bytes(SubSeq(rest, 1, 8)) IN
             CASE tag = 2 -> Ok(TransferIx(amount))
               [] tag = 3 -> Ok(ApproveIx(amount))
               [] tag = 4 -> Ok(MintToIx(amount))
               [] tag = 5 -> Ok(BurnIx(amount))
    ELSE Err("InvalidInstruction")

\* Processor::process after the instruction is decoded: the dispatch.
process(bufs, accounts, instruction) ==
    CASE instruction.tag = "InitializeMint" ->
           process_initialize_mint(bufs, accounts, instruction.decimals,
                                   instruction.mint_authority)
      [] instruction.tag = "InitializeAccount" ->
           process_initialize_account(bufs, accounts)
      [] instruction.tag = "Transfer" -> process_transfer(bufs, accounts, instruction.amount)
      [] instruction.tag = "Approve" -> process_approve(bufs, accounts, instruction.amount)
      [] instruction.tag = "MintTo" -> process_mint_to(bufs, accounts, instruction.amount)
      [] instruction.tag = "Burn" -> process_burn(bufs, accounts, instruction.amount)

\* Processor::process on the bytes of an instruction: decode, then dispatch.
Processor_process(bufs, accounts, input) ==
    LET instruction == TokenInstruction_unpack(input) IN
    IF ~instruction.ok THEN Reject(instruction.err, bufs)
    ELSE process(bufs, accounts, instruction.val)

\* ------------------------------------------------------------ state machine
\* data: the buffer the environment keeps at each record address.
\* approved, removed: for each account, the allowance of its last successful
\* Approve (0 before any) and the total that transfers and burns authorized by
\* its delegate, and not by its owner, have removed from it since.  The two
\* record history; no operation reads them.
VARIABLES data, approved, removed, slot, codec
vars == <<data, approved, removed, slot, codec>>

\* No run of the codec harness yet.
NoRun == [op |-> "none"]

Init ==
    /\ data = [k \in RecordKeys |-> IF k \in MintKeys THEN ZeroMintBuf ELSE ZeroAccountBuf]
    /\ approved = [k \in AccountKeys |-> 0]
    /\ removed = [k \in AccountKeys |-> 0]
    /\ slot = EmptyBuf
    /\ codec = NoRun

\* The handles a caller passes: handles of account records and of mint
\* records, authority handles, the rent sysvar handle (or a handle that is not
\* the sysvar).
AccountInfos == {AccountInfo(k, FALSE, TRUE) : k \in AccountKeys}
MintInfos == {AccountInfo(k, FALSE, TRUE) : k \in MintKeys}
NewMintInfos == {AccountInfo(k, FALSE, r) : k \in MintKeys, r \in BOOLEAN}
WalletInfos == {AccountInfo(k, FALSE, FALSE) : k \in Wallets}
AuthorityInfos == {AccountInfo(k, s, FALSE) : k \in Wallets, s \in BOOLEAN}
RentInfos == {AccountInfo(k, FALSE, FALSE) : k \in {SysvarRentId, Key(5)}}

\* The accounts callers open, as <<account, mint, owner>>: the first account
\* for one owner on one mint, the second for any owner on any mint.
Openings == {<<Key(3), Key(1), Key(5)>>} \cup {<<Key(4), m, w>> : m \in MintKeys, w \in Wallets}

\* Every list of handles a caller may pass for a full list in S: the list or
\* a shorter one.
Prefixes(S) == UNION {{SubSeq(s, 1, n) : n \in 0..Len(s)} : s \in S}

\* The calls of each operation: a list of handles and a decoded instruction.
InitializeMintCalls ==
    {<<a, InitializeMintIx(d, m)>> :
        a \in Prefixes(NewMintInfos \X RentInfos), d \in DecimalsSet, m \in MintAuthorities}
InitializeAccountCalls ==
    {<<a, InitializeAccountIx>> :
        a \in Prefixes({<<AccountInfo(o[1], FALSE, r), AccountInfo(o[2], FALSE, TRUE),
                          AccountInfo(o[3], FALSE, FALSE), t>> :
                            o \in Openings, r \in BOOLEAN, t \in RentInfos})}
TransferCalls ==
    {<<a, TransferIx(n)>> :
        a \in Prefixes(AccountInfos \X AccountInfos \X AuthorityInfos), n \in U64}
ApproveCalls ==
    {<<a, ApproveIx(n)>> :
        a \in Prefixes(AccountInfos \X WalletInfos \X AuthorityInfos), n \in U64}
MintToCalls ==
    {<<a, MintToIx(n)>> :
        a \in Prefixes(MintInfos \X AccountInfos \X AuthorityInfos), n \in U64}
BurnCalls ==
    {<<a, BurnIx(n)>> :
        a \in Prefixes(AccountInfos \X MintInfos \X AuthorityInfos), n \in U64}
Calls ==
    InitializeMintCalls \cup InitializeAccountCalls \cup TransferCalls
        \cup ApproveCalls \cup MintToCalls \cup BurnCalls

\* Was the call authorized by the source's delegate and not by its owner?
ByDelegate(bufs, accounts) ==
    /\ Len(accounts) >= 3
    /\ LET source == Account_unpack(DataOf(bufs, accounts[1].key)) IN
         /\ source.ok
         /\ source.val.delegate.some
         /\ source.val.delegate.key = accounts[3].key
         /\ source.val.owner # accounts[3].key

ApprovedAfter(bufs, call, result) ==
    IF result = "Ok" /\ call[2].tag = "Approve"
    THEN [approved EXCEPT ![call[1][1].key] = call[2].amount]
    ELSE approved

RemovedAfter(bufs, call, result) ==
    IF result # "Ok" THEN removed
    ELSE IF call[2].tag = "Approve" THEN [removed EXCEPT ![call[1][1].key] = 0]
    ELSE IF call[2].tag \in {"Transfer", "Burn"} /\ ByDelegate(bufs, call[1])
    THEN [removed EXCEPT ![call[1][1].key] = @ + call[2].amount]
    ELSE removed

InitializeMint ==
    \E call \in InitializeMintCalls :
        \E r \in {Processor_process(data, call[1], TokenInstruction_pack(call[2]))} :
        /\ data' = r.data
        /\ approved' = ApprovedAfter(data, call, r.result)
        /\ removed' = RemovedAfter(data, call, r.result)
        /\ UNCHANGED <<slot, codec>>

InitializeAccount ==
    \E call \in InitializeAccountCalls :
        \E r \in {Processor_process(data, call[1], TokenInstruction_pack(call[2]))} :
        /\ data' = r.data
        /\ approved' = ApprovedAfter(data, call, r.result)
        /\ removed' = RemovedAfter(data, call, r.result)
        /\ UNCHANGED <<slot, codec>>

Transfer ==
    \E call \in TransferCalls :
        \E r \in {Processor_process(data, call[1], TokenInstruction_pack(call[2]))} :
        /\ data' = r.data
        /\ approved' = ApprovedAfter(data, call, r.result)
        /\ removed' = RemovedAfter(data, call, r.result)
        /\ UNCHANGED <<slot, codec>>

Approve ==
    \E call \in ApproveCalls :
        \E r \in {Processor_process(data, call[1], TokenInstruction_pack(call[2]))} :
        /\ data' = r.data
        /\ approved' = ApprovedAfter(data, call, r.result)
        /\ removed' = RemovedAfter(data, call, r.result)
        /\ UNCHANGED <<slot, codec>>

MintTo ==
    \E call \in MintToCalls :
        \E r \in {Processor_process(data, call[1], TokenInstruction_pack(call[2]))} :
        /\ data' = r.data
        /\ approved' = ApprovedAfter(data, call, r.result)
        /\ removed' = RemovedAfter(data, call, r.result)
        /\ UNCHANGED <<slot, codec>>

Burn ==
    \E call \in BurnCalls :
        \E r \in {Processor_process(data, call[1], TokenInstruction_pack(call[2]))} :
        /\ data' = r.data
        /\ approved' = ApprovedAfter(data, call, r.result)
        /\ removed' = RemovedAfter(data, call, r.result)
        /\ UNCHANGED <<slot, codec>>

\* The bytes callers send: the encodings of the instructions of Calls, every
\* prefix of one, one followed by trailing bytes, one with a tag above 5 and
\* an InitializeMint whose 32 address bytes are not all the same.
TrailingBytes == {<<0>>, <<1, 255>>}

\* Keys whose 32 bytes are not all the same.
MixedKeys == {[i \in 1..31 |-> 5] \o <<9>>, [i \in 1..32 |-> i]}

Encodings == {TokenInstruction_pack(call[2]) : call \in Calls}

WireInputs ==
    Prefixes(Encodings)
        \cup {e \o t : e \in Encodings, t \in TrailingBytes}
        \cup {<<6>> \o Tail(e) : e \in Encodings}
        \cup {<<255>> \o Tail(e) : e \in Encodings}
        \cup {<<0, 2>> \o k : k \in MixedKeys}

\* The bytes the Undecodable step is taken on: an encoding without its last
\* byte, or with the tag 6.
UndecodableInputs ==
    {SubSeq(e, 1, Len(e) - 1) : e \in Encodings} \cup {<<6>> \o Tail(e) : e \in Encodings}

\* Handle lists for the bytes: none, those of an InitializeMint and those of a
\* Transfer signed by a wallet.
SomeHandles ==
    {<<>>,
     <<AccountInfo(Key(1), FALSE, TRUE), AccountInfo(SysvarRentId, FALSE, FALSE)>>,
     <<AccountInfo(Key(3), FALSE, TRUE), AccountInfo(Key(4), FALSE, TRUE), AccountInfo(Key(5), TRUE, FALSE)>>}

\* Processor::process on bytes that do not decode.
Undecodable ==
    \E accounts \in SomeHandles, input \in UndecodableInputs :
        \E r \in {Processor_process(data, accounts, input)} :
        /\ data' = r.data
        /\ UNCHANGED <<approved, removed, slot, codec>>

Next ==
    \/ InitializeMint
    \/ InitializeAccount
    \/ Transfer
    \/ Approve
    \/ MintTo
    \/ Burn
    \/ Undecodable

Spec == Init /\ [][Next]_vars

\* ------------------------------------------------------------ codec harness
\* The codec on its own, as the tests of processor.rs and instruction.rs run
\* it: slot is a buffer of some length the environment allocated zero-filled,
\* and codec records the last run: the value given, whether the pack was
\* accepted (for an instruction, the bytes it produced) and what the unpack of
\* the result returned.
SlotLengths ==
    {Mint_LEN - 1, Mint_LEN, Mint_LEN + 1, Account_LEN - 1, Account_LEN, Account_LEN + 1}

ZeroBuf(n) ==
    IF n = Mint_LEN THEN ZeroMintBuf
    ELSE IF n = Account_LEN THEN ZeroAccountBuf
    ELSE [len |-> n]

OptionalKeys == {COption_None, COption_Some(Key(0)), COption_Some(Key(5))}

MintValues ==
    [mint_authority : OptionalKeys, supply : U64, decimals : {0, 2, 255},
     is_initialized : BOOLEAN]

AccountValues ==
    [mint : {Key(1)}, owner : {Key(0), Key(6)}, amount : U64, delegate : OptionalKeys,
     delegated_amount : {0, U64_MAX}, state : {"Uninitialized", "Initialized"}]

\* Amounts on the wire, with one, two, three and four non-zero bytes.
WireAmounts == {0, 1, 255, 258, 65536, 16909060}

WireInstructions ==
    {InitializeMintIx(d, m) : d \in {0, 2, 255},
                              m \in {Key(0), Key(5), Key(6)} \cup MixedKeys}
        \cup {InitializeAccountIx}
        \cup {TransferIx(n) : n \in WireAmounts}
        \cup {ApproveIx(n) : n \in WireAmounts}
        \cup {MintToIx(n) : n \in WireAmounts}
        \cup {BurnIx(n) : n \in WireAmounts}

CodecInit ==
    /\ data = [k \in RecordKeys |-> IF k \in MintKeys THEN ZeroMintBuf ELSE ZeroAccountBuf]
    /\ approved = [k \in AccountKeys |-> 0]
    /\ removed = [k \in AccountKeys |-> 0]
    /\ slot \in {ZeroBuf(n) : n \in SlotLengths}
    /\ codec = NoRun

\* Mint::pack of a value into the slot, then Mint::unpack_unchecked and
\* Mint::unpack of the slot.
MintRoundTrip ==
    \E v \in MintValues :
        \E r \in {Mint_pack(v, slot)} :
        /\ slot' = IF r.ok THEN r.val ELSE slot
        /\ codec' = [op |-> "Mint", given |-> v,
                     packed |-> IF r.ok THEN Ok(TRUE) ELSE r,
                     unpacked |-> Mint_unpack_unchecked(slot'),
                     strict |-> Mint_unpack(slot')]
        /\ UNCHANGED <<data, approved, removed>>

AccountRoundTrip ==
    \E v \in AccountValues :
        \E r \in {Account_pack(v, slot)} :
        /\ slot' = IF r.ok THEN r.val ELSE slot
        /\ codec' = [op |-> "Account", given |-> v,
                     packed |-> IF r.ok THEN Ok(TRUE) ELSE r,
                     unpacked |-> Account_unpack_unchecked(slot'),
                     strict |-> Account_unpack(slot')]
        /\ UNCHANGED <<data, approved, removed>>

\* TokenInstruction::pack of an instruction, then TokenInstruction::unpack of
\* the bytes.
InstructionRoundTrip ==
    \E i \in WireInstructions :
        \E bytes \in {TokenInstruction_pack(i)} :
        /\ codec' = [op |-> "Instruction", given |-> i,
                     packed |-> bytes,
                     unpacked |-> TokenInstruction_unpack(bytes)]
        /\ UNCHANGED <<data, approved, removed, slot>>

CodecNext ==
    \/ MintRoundTrip
    \/ AccountRoundTrip
    \/ InstructionRoundTrip

CodecSpec == CodecInit /\ [][CodecNext]_vars

\* ------------------------------------------------------------------ claims
\* Calls with any record, or a wallet with no data, in a record position.
AnyInfos == {AccountInfo(k, FALSE, TRUE) : k \in RecordKeys \cup {Key(5)}}
AnyNewInfos == {AccountInfo(k, FALSE, r) : k \in RecordKeys \cup {Key(5)}, r \in BOOLEAN}
AnyCalls ==
    {<<a, InitializeMintIx(d, m)>> :
        a \in Prefixes(AnyNewInfos \X RentInfos), d \in DecimalsSet, m \in Wallets}
    \cup {<<a, InitializeAccountIx>> :
        a \in Prefixes(AnyNewInfos \X AnyInfos \X WalletInfos \X RentInfos)}
    \cup {<<a, TransferIx(n)>> :
        a \in Prefixes(AnyInfos \X AnyInfos \X AuthorityInfos), n \in U64}
    \cup {<<a, ApproveIx(n)>> :
        a \in Prefixes(AnyInfos \X WalletInfos \X AuthorityInfos), n \in U64}
    \cup {<<a, MintToIx(n)>> :
        a \in Prefixes(AnyInfos \X AnyInfos \X AuthorityInfos), n \in U64}
    \cup {<<a, BurnIx(n)>> :
        a \in Prefixes(AnyInfos \X AnyInfos \X AuthorityInfos), n \in U64}

\* The records as the codec reads them, initialized or not.
MintAt(bufs, k) == Mint_unpack_unchecked(bufs[k]).val
AccountAt(bufs, k) == Account_unpack_unchecked(bufs[k]).val
MintInitialized(bufs, k) == Mint_unpack(bufs[k]).ok
AccountInitialized(bufs, k) == Account_unpack(bufs[k]).ok

RECURSIVE SumAmounts(_, _)
SumAmounts(bufs, S) ==
    IF S = {} THEN 0
    ELSE LET k == CHOOSE x \in S : TRUE IN
         AccountAt(bufs, k).amount + SumAmounts(bufs, S \ {k})

\* C1: whenever process returns an error, for any of the six operations and
\* any handles and arguments, every record holds what it held before the call.
C1_AllOrNothing ==
    \A call \in AnyCalls :
        LET r == process(data, call[1], call[2]) IN
        r.result # "Ok" => r.data = data

\* C1 witness: a Transfer by the signing delegate, within the balance and
\* between two accounts of one mint, rejected by its last check, the allowance.
C1_Witness ==
    \E call \in TransferCalls :
        /\ Len(call[1]) = 3
        /\ AccountInitialized(data, call[1][1].key)
        /\ AccountAt(data, call[1][1].key).delegate = COption_Some(call[1][3].key)
        /\ call[1][3].is_signer
        /\ AccountAt(data, call[1][1].key).delegated_amount >= 1
        /\ AccountAt(data, call[1][1].key).amount >= call[2].amount
        /\ process(data, call[1], call[2]).result = "InsufficientFunds"

\* C2: the supply of every initialized mint is the sum of the amounts of the
\* initialized accounts of that mint.
C2_SupplyConservation ==
    \A m \in MintKeys :
        MintInitialized(data, m) =>
            MintAt(data, m).supply =
                SumAmounts(data, {k \in AccountKeys :
                    AccountInitialized(data, k) /\ AccountAt(data, k).mint = m})

\* C2 witness: a mint whose supply is spread over two accounts.
C2_Witness ==
    \E m \in MintKeys :
        /\ MintInitialized(data, m)
        /\ MintAt(data, m).supply = U64_MAX
        /\ \A k \in AccountKeys :
              /\ AccountInitialized(data, k)
              /\ AccountAt(data, k).mint = m
              /\ AccountAt(data, k).amount >= 1

\* C3: a Transfer between two distinct initialized accounts of one mint, of an
\* amount within the source's balance, signed by the source's owner, succeeds
\* and moves exactly the amount from the source to the destination.
C3_OwnerTransferSucceeds ==
    \A s \in AccountKeys, d \in AccountKeys, n \in U64 :
        (/\ s # d
         /\ AccountInitialized(data, s)
         /\ AccountInitialized(data, d)
         /\ AccountAt(data, s).mint = AccountAt(data, d).mint
         /\ n <= AccountAt(data, s).amount)
        =>
        LET accounts == <<AccountInfo(s, FALSE, TRUE), AccountInfo(d, FALSE, TRUE),
                          AccountInfo(AccountAt(data, s).owner, TRUE, FALSE)>>
            r == process(data, accounts, TransferIx(n))
        IN
        /\ r.result = "Ok"
        /\ AccountAt(r.data, s).amount = AccountAt(data, s).amount - n
        /\ AccountAt(r.data, d).amount = AccountAt(data, d).amount + n
        /\ AccountAt(r.data, s).amount + AccountAt(r.data, d).amount
             = AccountAt(data, s).amount + AccountAt(data, d).amount

\* The amount, delegate and allowance of every account and the supply of
\* every mint.
Holdings(bufs) ==
    [k \in RecordKeys |->
        IF k \in MintKeys THEN <<MintAt(bufs, k).supply>>
        ELSE <<AccountAt(bufs, k).amount, AccountAt(bufs, k).delegate,
               AccountAt(bufs, k).delegated_amount>>]

\* The call comes with the signer its operation asks for: the source's owner
\* or delegate (Transfer, Burn), the source's owner (Approve), the mint's
\* authority (MintTo).
SignedAsRequired(bufs, call) ==
    /\ call[2].tag \in {"Transfer", "Burn", "Approve", "MintTo"}
    /\ Len(call[1]) >= 3
    /\ call[1][3].is_signer
    /\ LET source == Account_unpack(DataOf(bufs, call[1][1].key))
           mint == Mint_unpack(DataOf(bufs, call[1][1].key))
           key == call[1][3].key
       IN
       CASE call[2].tag \in {"Transfer", "Burn"} ->
              /\ source.ok
              /\ \/ key = source.val.owner
                 \/ source.val.delegate = COption_Some(key)
         [] call[2].tag = "Approve" -> source.ok /\ key = source.val.owner
         [] call[2].tag = "MintTo" ->
              mint.ok /\ mint.val.mint_authority = COption_Some(key)

\* C4: a Transfer, Burn, Approve or MintTo succeeds only with the signer it asks
\* for, and no call of any operation changes an amount, a delegate, an allowance
\* or a supply without it.
C4_Authorization ==
    \A call \in AnyCalls :
        LET r == process(data, call[1], call[2]) IN
        /\ (r.result = "Ok" /\ call[2].tag \in {"Transfer", "Burn", "Approve", "MintTo"})
              => SignedAsRequired(data, call)
        /\ (r.data # data /\ Holdings(r.data) # Holdings(data))
              => SignedAsRequired(data, call)

\* C4 witness: a Transfer of a positive amount that succeeds for the delegate,
\* who is not the owner.
C4_Witness ==
    \E call \in TransferCalls :
        /\ call[2].amount >= 1
        /\ ByDelegate(data, call[1])
        /\ process(data, call[1], call[2]).result = "Ok"

\* C5: what the delegate of an account, acting as delegate and not as owner,
\* has removed from it by Transfer and Burn since the last successful Approve
\* never exceeds the allowance of that Approve.
C5_AllowanceBound == \A a \in AccountKeys : removed[a] <= approved[a]

\* C5 witness: the delegate has removed part of the allowance.
C5_Witness == \E a \in AccountKeys : removed[a] >= 1 /\ removed[a] < approved[a]

\* C6: a successful Transfer authorized by the delegate clears the delegate and
\* the allowance when it takes exactly the allowance, and otherwise takes less
\* than the allowance, keeps the delegate and reduces the allowance by the amount.
C6_DelegateTransfer ==
    \A call \in TransferCalls :
        LET r == process(data, call[1], call[2])
            s == call[1][1].key
            n == call[2].amount
        IN
        (/\ r.result = "Ok"
         /\ AccountAt(data, s).delegate = COption_Some(call[1][3].key))
        =>
        IF n = AccountAt(data, s).delegated_amount
        THEN /\ AccountAt(r.data, s).delegate = COption_None
             /\ AccountAt(r.data, s).delegated_amount = 0
        ELSE /\ n < AccountAt(data, s).delegated_amount
             /\ AccountAt(r.data, s).delegate = AccountAt(data, s).delegate
             /\ AccountAt(r.data, s).delegated_amount
                  = AccountAt(data, s).delegated_amount - n

\* C6 witness: a delegate that has used up its allowance and is cleared.
C6_Witness ==
    \E a \in AccountKeys :
        /\ approved[a] >= 1
        /\ removed[a] = approved[a]
        /\ AccountInitialized(data, a)
        /\ AccountAt(data, a).delegate = COption_None

\* The record an initialize call targets is of the call's kind and initialized.
TargetsInitialized(bufs, call) ==
    /\ Len(call[1]) >= 1
    /\ \/ /\ call[2].tag = "InitializeMint"
          /\ call[1][1].key \in MintKeys
          /\ MintInitialized(bufs, call[1][1].key)
       \/ /\ call[2].tag = "InitializeAccount"
          /\ call[1][1].key \in AccountKeys
          /\ AccountInitialized(bufs, call[1][1].key)

\* The call has all the handles of its initialize operation and its last
\* handle is the rent sysvar.
WellFormedInitialize(call) ==
    \/ call[2].tag = "InitializeMint" /\ Len(call[1]) >= 2
          /\ call[1][2].key = SysvarRentId
    \/ call[2].tag = "InitializeAccount" /\ Len(call[1]) >= 4
          /\ call[1][4].key = SysvarRentId

StaysInitialized(bufs, after) ==
    /\ \A k \in MintKeys : MintInitialized(bufs, k) => MintInitialized(after, k)
    /\ \A k \in AccountKeys : AccountInitialized(bufs, k) => AccountInitialized(after, k)

\* C7, as stated: an initialized record stays initialized after every call,
\* and every InitializeMint or InitializeAccount targeting it is rejected with
\* AlreadyInUse and changes nothing.
C7_ReinitAlreadyInUse ==
    \A call \in AnyCalls :
        LET r == process(data, call[1], call[2]) IN
        /\ r.data # data => StaysInitialized(data, r.data)
        /\ TargetsInitialized(data, call)
              => r.result = "AlreadyInUse" /\ r.data = data

\* C7, amended: an initialized record stays initialized after every call, and
\* every InitializeMint or InitializeAccount targeting it is rejected and
\* changes nothing; the error is AlreadyInUse when the call has all its handles
\* and its rent handle is the rent sysvar, and otherwise the error of the
\* missing handle or of the handle that is not the sysvar.
C7_InitializedOnce ==
    \A call \in AnyCalls :
        LET r == process(data, call[1], call[2]) IN
        /\ r.data # data => StaysInitialized(data, r.data)
        /\ TargetsInitialized(data, call) =>
              /\ r.data = data
              /\ IF WellFormedInitialize(call) THEN r.result = "AlreadyInUse"
                 ELSE r.result \in {"NotEnoughAccountKeys", "InvalidArgument"}

\* C7 witness: an initialized account with a balance, whose re-initialization
\* by a well-formed call is rejected with AlreadyInUse.
C7_Witness ==
    \E call \in InitializeAccountCalls :
        /\ TargetsInitialized(data, call)
        /\ WellFormedInitialize(call)
        /\ AccountAt(data, call[1][1].key).amount >= 1
        /\ process(data, call[1], call[2]).result = "AlreadyInUse"

\* What a successful MintTo or Burn does: supply and balance change by
\* exactly the amount.
MintToBurnExact(bufs, call, r) ==
    /\ (call[2].tag = "MintTo" /\ r.result = "Ok") =>
          /\ MintAt(r.data, call[1][1].key).supply
               = MintAt(bufs, call[1][1].key).supply + call[2].amount
          /\ AccountAt(r.data, call[1][2].key).amount
               = AccountAt(bufs, call[1][2].key).amount + call[2].amount
    /\ (call[2].tag = "Burn" /\ r.result = "Ok") =>
          /\ MintAt(r.data, call[1][2].key).supply
               = MintAt(bufs, call[1][2].key).supply - call[2].amount
          /\ AccountAt(r.data, call[1][1].key).amount
               = AccountAt(bufs, call[1][1].key).amount - call[2].amount

\* A MintTo with an initialized destination of the named, initialized mint and
\* the mint authority's signature.
ValidMintTo(bufs, call) ==
    /\ call[2].tag = "MintTo"
    /\ Len(call[1]) >= 3
    /\ call[1][1].key \in MintKeys
    /\ call[1][2].key \in AccountKeys
    /\ MintInitialized(bufs, call[1][1].key)
    /\ AccountInitialized(bufs, call[1][2].key)
    /\ AccountAt(bufs, call[1][2].key).mint = call[1][1].key
    /\ SignedAsRequired(bufs, call)

\* A Burn on an initialized source of the named, initialized mint.
BurnOfMint(bufs, call) ==
    /\ call[2].tag = "Burn"
    /\ Len(call[1]) >= 3
    /\ call[1][1].key \in AccountKeys
    /\ call[1][2].key \in MintKeys
    /\ AccountInitialized(bufs, call[1][1].key)
    /\ MintInitialized(bufs, call[1][2].key)
    /\ AccountAt(bufs, call[1][1].key).mint = call[1][2].key

\* C8, as stated: a successful MintTo or Burn changes supply and balance by
\* exactly the amount; a MintTo whose supply + amount exceeds u64::MAX and a
\* Burn whose amount exceeds the supply are rejected with Overflow.
C8_OverflowRejected ==
    \A call \in AnyCalls :
        LET r == process(data, call[1], call[2]) IN
        /\ MintToBurnExact(data, call, r)
        /\ (/\ ValidMintTo(data, call)
            /\ MintAt(data, call[1][1].key).supply + call[2].amount > U64_MAX)
              => r.result = "Overflow"
        /\ (/\ BurnOfMint(data, call)
            /\ SignedAsRequired(data, call)
            /\ call[2].amount > MintAt(data, call[1][2].key).supply)
              => r.result = "Overflow"

\* C8, amended: a successful MintTo or Burn changes supply and balance by
\* exactly the amount; a MintTo that passes the checks before the arithmetic
\* and whose supply + amount exceeds u64::MAX is rejected with Overflow; a Burn
\* whose amount exceeds the supply of the source's mint is rejected with
\* InsufficientFunds, the balance check coming before the arithmetic.
C8_SupplyArithmetic ==
    \A call \in AnyCalls :
        LET r == process(data, call[1], call[2]) IN
        /\ MintToBurnExact(data, call, r)
        /\ (/\ ValidMintTo(data, call)
            /\ MintAt(data, call[1][1].key).supply + call[2].amount > U64_MAX)
              => r.result = "Overflow"
        /\ (/\ BurnOfMint(data, call)
            /\ call[2].amount > MintAt(data, call[1][2].key).supply)
              => r.result = "InsufficientFunds"

\* C8 witness: a mint with supply out, where a valid MintTo is rejected with
\* Overflow and a Burn of a positive amount succeeds.
C8_Witness ==
    /\ \E call \in MintToCalls :
          /\ ValidMintTo(data, call)
          /\ MintAt(data, call[1][1].key).supply >= 1
          /\ process(data, call[1], call[2]).result = "Overflow"
    /\ \E call \in BurnCalls :
          /\ call[2].amount >= 1
          /\ process(data, call[1], call[2]).result = "Ok"

\* The mint record a successful call may change the supply of.
NamedMint(call, result) ==
    IF result = "Ok" /\ call[2].tag = "MintTo" THEN {call[1][1].key}
    ELSE IF result = "Ok" /\ call[2].tag = "Burn" THEN {call[1][2].key}
    ELSE {}

\* C9: the supply bytes of a mint record change only by a successful MintTo or
\* Burn naming that record; InitializeMint, InitializeAccount, Transfer and
\* Approve leave every supply as it was, and InitializeMint changes nothing but
\* mint_authority, decimals and is_initialized of its record.
C9_SupplyFrame ==
    \A call \in AnyCalls :
        LET r == process(data, call[1], call[2]) IN
        /\ \A m \in MintKeys \ NamedMint(call, r.result) :
              r.data[m].supply = data[m].supply
        /\ (call[2].tag = "InitializeMint" /\ r.result = "Ok") =>
              r.data = [data EXCEPT ![call[1][1].key] =
                          [@ EXCEPT !.mint_authority = r.data[call[1][1].key].mint_authority,
                                    !.decimals = r.data[call[1][1].key].decimals,
                                    !.is_initialized = r.data[call[1][1].key].is_initialized]]

\* C9 witness: with the whole supply of a mint out, a Transfer of a positive
\* amount signed by the owner succeeds.
C9_Witness ==
    \E call \in TransferCalls :
        /\ call[2].amount >= 1
        /\ ~ByDelegate(data, call[1])
        /\ process(data, call[1], call[2]).result = "Ok"
        /\ MintAt(data, AccountAt(data, call[1][1].key).mint).supply = U64_MAX

\* C10: the mint bytes and the owner bytes of an initialized account are the
\* same after every call of every operation.
C10_MintOwnerFrame ==
    \A call \in AnyCalls :
        LET r == process(data, call[1], call[2]) IN
        \A a \in AccountKeys :
            (r.data[a] # data[a] /\ AccountInitialized(data, a)) =>
                /\ r.data[a].mint = data[a].mint
                /\ r.data[a].owner = data[a].owner

\* C10 witness: two accounts of different owners and one mint, both with a
\* balance, one with a delegate.
C10_Witness ==
    /\ \A a \in AccountKeys : AccountInitialized(data, a) /\ AccountAt(data, a).amount >= 1
    /\ AccountAt(data, Key(3)).owner # AccountAt(data, Key(4)).owner
    /\ AccountAt(data, Key(3)).mint = AccountAt(data, Key(4)).mint
    /\ AccountAt(data, Key(4)).delegate.some

\* C11: a Transfer whose first two handles have the same address is rejected
\* with SelfTransfer and changes no record, for every amount, every record at
\* that address and every authority handle, a missing one included.
C11_SelfTransfer ==
    \A call \in AnyCalls :
        (/\ call[2].tag = "Transfer"
         /\ Len(call[1]) >= 2
         /\ call[1][1].key = call[1][2].key) =>
            LET r == process(data, call[1], call[2]) IN
            r.result = "SelfTransfer" /\ r.data = data

\* C11 witness: an initialized account with a balance and a delegate, whose
\* owner-signed transfer of its balance to itself is rejected with SelfTransfer.
C11_Witness ==
    \E a \in AccountKeys :
        /\ AccountInitialized(data, a)
        /\ AccountAt(data, a).amount >= 1
        /\ AccountAt(data, a).delegate.some
        /\ process(data, <<AccountInfo(a, FALSE, TRUE), AccountInfo(a, FALSE, TRUE),
                           AccountInfo(AccountAt(data, a).owner, TRUE, FALSE)>>,
                   TransferIx(AccountAt(data, a).amount)).result = "SelfTransfer"

\* The number of handles each operation takes.
HandlesNeeded(instruction) ==
    CASE instruction.tag = "InitializeMint" -> 2
      [] instruction.tag = "InitializeAccount" -> 4
      [] OTHER -> 3

\* C12, as stated: an operation given fewer handles than it takes fails with
\* the error of the missing handle and changes no record.
C12_TooFewHandles ==
    \A call \in AnyCalls :
        Len(call[1]) < HandlesNeeded(call[2]) =>
            LET r == process(data, call[1], call[2]) IN
            r.result = "NotEnoughAccountKeys" /\ r.data = data

\* C12, amended: an operation given fewer handles than it takes fails and
\* changes no record; the error is that of the missing handle, except for a
\* Transfer given two handles of the same address, which fails with
\* SelfTransfer.
C12_TooFewHandlesRejected ==
    \A call \in AnyCalls :
        Len(call[1]) < HandlesNeeded(call[2]) =>
            LET r == process(data, call[1], call[2]) IN
            /\ r.data = data
            /\ IF /\ call[2].tag = "Transfer"
                  /\ Len(call[1]) = 2
                  /\ call[1][1].key = call[1][2].key
               THEN r.result = "SelfTransfer"
               ELSE r.result = "NotEnoughAccountKeys"

\* C12 witness: the owner's Approve on an initialized account succeeds with
\* three handles and fails for the missing handle with the first two.
C12_Witness ==
    \E call \in ApproveCalls :
        /\ Len(call[1]) = 3
        /\ call[2].amount >= 1
        /\ process(data, call[1], call[2]).result = "Ok"
        /\ process(data, SubSeq(call[1], 1, 2), call[2]).result = "NotEnoughAccountKeys"

\* A Burn with three handles on an initialized source account whose mint field
\* is not the address of the second handle.
BurnOfOtherMint(bufs, call) ==
    /\ call[2].tag = "Burn"
    /\ Len(call[1]) >= 3
    /\ call[1][1].key \in AccountKeys
    /\ AccountInitialized(bufs, call[1][1].key)
    /\ AccountAt(bufs, call[1][1].key).mint # call[1][2].key

\* C13, as stated: a Burn of any amount on an initialized source whose mint is
\* not the supplied mint record is rejected with MintMismatch and changes
\* nothing.
C13_BurnMintMismatch ==
    \A call \in AnyCalls :
        BurnOfOtherMint(data, call) =>
            LET r == process(data, call[1], call[2]) IN
            r.result = "MintMismatch" /\ r.data = data

\* C13, amended: a Burn on an initialized source whose mint is not the supplied
\* mint record is rejected and changes nothing, whatever the second handle and
\* the authority; the error is MintMismatch when the amount is at most the
\* source's balance and InsufficientFunds when it is more.
C13_BurnWrongMintRejected ==
    \A call \in AnyCalls :
        BurnOfOtherMint(data, call) =>
            LET r == process(data, call[1], call[2]) IN
            /\ r.data = data
            /\ IF call[2].amount <= AccountAt(data, call[1][1].key).amount
               THEN r.result = "MintMismatch"
               ELSE r.result = "InsufficientFunds"

\* C13 witness: both mints initialized and an account with a balance, whose
\* owner-signed Burn of that balance naming the other mint is rejected with
\* MintMismatch.
C13_Witness ==
    \E call \in BurnCalls :
        /\ BurnOfOtherMint(data, call)
        /\ MintInitialized(data, call[1][2].key)
        /\ call[2].amount >= 1
        /\ call[2].amount = AccountAt(data, call[1][1].key).amount
        /\ call[1][3].is_signer
        /\ call[1][3].key = AccountAt(data, call[1][1].key).owner
        /\ process(data, call[1], call[2]).result = "MintMismatch"

\* A Transfer with three handles, distinct initialized source and destination,
\* and an amount above the source's balance.
TransferAboveBalance(bufs, call) ==
    /\ call[2].tag = "Transfer"
    /\ Len(call[1]) >= 3
    /\ call[1][1].key \in AccountKeys
    /\ call[1][2].key \in AccountKeys
    /\ call[1][1].key # call[1][2].key
    /\ AccountInitialized(bufs, call[1][1].key)
    /\ AccountInitialized(bufs, call[1][2].key)
    /\ call[2].amount > AccountAt(bufs, call[1][1].key).amount

\* C14: a Transfer between distinct initialized accounts of an amount above
\* the source's balance is rejected with InsufficientFunds and changes nothing,
\* whatever the mints of the two accounts and whatever the authority handle.
C14_InsufficientFunds ==
    \A call \in AnyCalls :
        TransferAboveBalance(data, call) =>
            LET r == process(data, call[1], call[2]) IN
            r.result = "InsufficientFunds" /\ r.data = data

\* C14 witness: accounts of different mints, the source with a balance, and a
\* Transfer above that balance whose authority is neither the owner nor a
\* signer, rejected with InsufficientFunds.
C14_Witness ==
    \E call \in TransferCalls :
        /\ TransferAboveBalance(data, call)
        /\ AccountAt(data, call[1][1].key).amount >= 1
        /\ AccountAt(data, call[1][1].key).mint # AccountAt(data, call[1][2].key).mint
        /\ call[1][3].key # AccountAt(data, call[1][1].key).owner
        /\ ~call[1][3].is_signer
        /\ process(data, call[1], call[2]).result = "InsufficientFunds"

\* Account buffers that decode to an Uninitialized account, zero-filled or
\* holding other bytes in the fields.
StaleAccountBufs ==
    {[len |-> Account_LEN, mint |-> m, owner |-> o, amount |-> n, delegate |-> d,
      delegated_amount |-> n, state |-> 0] :
        m \in {Key(0), Key(2)}, o \in {Key(0), Key(6)}, n \in {0, 1},
        d \in {ZeroCOptionBytes, [tag |-> SomeTag, body |-> Key(6)],
                [tag |-> ZeroTag, body |-> Key(6)]}}

\* InitializeAccount calls with four handles.
FullInitializeAccountCalls ==
    {<<a, InitializeAccountIx>> : a \in AnyNewInfos \X AnyInfos \X WalletInfos \X RentInfos}

\* The ledger with the given bytes in an account buffer that is not
\* initialized.
WithStale(bufs, k, buf) == [bufs EXCEPT ![k] = buf]

InitializedMintAt(bufs, k) == k \in MintKeys /\ MintInitialized(bufs, k)

\* The account a successful InitializeAccount leaves.
OpenedAccount(call) ==
    [mint |-> call[1][2].key, owner |-> call[1][3].key, amount |-> 0,
     delegate |-> COption_None, delegated_amount |-> 0, state |-> "Initialized"]

\* C15, as stated: InitializeAccount on an uninitialized account buffer
\* succeeds only when the mint record is an initialized Mint, is rejected with
\* InvalidMint leaving the account Uninitialized when it is not, and on success
\* leaves the account with the mint's address, the third handle's address as
\* owner, no balance, no delegate and no allowance, whatever the buffer held.
C15_InvalidMint ==
    \A call \in FullInitializeAccountCalls, buf \in StaleAccountBufs :
        LET a == call[1][1].key IN
        (a \in AccountKeys /\ ~AccountInitialized(data, a)) =>
            LET before == WithStale(data, a, buf)
                r == process(before, call[1], call[2]) IN
            /\ r.result = "Ok" =>
                  /\ InitializedMintAt(before, call[1][2].key)
                  /\ AccountAt(r.data, a) = OpenedAccount(call)
            /\ ~InitializedMintAt(before, call[1][2].key) =>
                  /\ r.result = "InvalidMint"
                  /\ ~AccountInitialized(r.data, a)

\* C15, amended: as C15, but with a mint record that is not an initialized Mint
\* the call is rejected with InvalidMint only when its rent handle is the rent
\* sysvar and the account buffer is rent-exempt; otherwise it is rejected with
\* the error of the earlier check; in every case no record changes.  A
\* successful call changes no other record.
C15_InitializeAccount ==
    \A call \in FullInitializeAccountCalls, buf \in StaleAccountBufs :
        LET a == call[1][1].key IN
        (a \in AccountKeys /\ ~AccountInitialized(data, a)) =>
            LET before == WithStale(data, a, buf)
                r == process(before, call[1], call[2]) IN
            /\ r.result = "Ok" =>
                  /\ InitializedMintAt(before, call[1][2].key)
                  /\ AccountAt(r.data, a) = OpenedAccount(call)
                  /\ \A k \in RecordKeys \ {a} : r.data[k] = before[k]
            /\ ~InitializedMintAt(before, call[1][2].key) =>
                  /\ r.data = before
                  /\ r.result =
                        IF call[1][4].key # SysvarRentId THEN "InvalidArgument"
                        ELSE IF ~call[1][1].rent_exempt THEN "NotRentExempt"
                        ELSE "InvalidMint"

\* C15 witness: one mint initialized and the other not, an account opened on
\* the first, and a well-formed InitializeAccount of the other account on the
\* second mint rejected with InvalidMint.
C15_Witness ==
    /\ \E a \in AccountKeys : AccountInitialized(data, a) /\ AccountAt(data, a).amount >= 1
    /\ \E call \in InitializeAccountCalls :
          /\ Len(call[1]) = 4
          /\ ~AccountInitialized(data, call[1][1].key)
          /\ ~MintInitialized(data, call[1][2].key)
          /\ process(data, call[1], call[2]).result = "InvalidMint"

\* InitializeMint calls with the two handles of the operation, the second the
\* rent sysvar, over more decimals and authorities than the ledger's callers
\* use.
ZeroBufferMintCalls ==
    {<<(<<i, AccountInfo(SysvarRentId, FALSE, FALSE)>>), InitializeMintIx(d, m)>> :
        i \in NewMintInfos, d \in {0, 2, 255}, m \in {Key(0), Key(5), Key(6)}}

Zeros(n) == [i \in 1..n |-> 0]

\* C16: InitializeMint(decimals, A) on a zero-filled 46-byte mint buffer
\* succeeds when the buffer is rent-exempt and leaves the bytes 1 0 0 0, the 32
\* bytes of A, eight 0 bytes, decimals, 1, which decode to the initialized mint
\* of authority A and supply 0; when the buffer is not rent-exempt it is
\* rejected with NotRentExempt and the buffer stays all zero.
C16_InitializeMintBytes ==
    \A call \in ZeroBufferMintCalls :
        LET m == call[1][1].key IN
        data[m] = ZeroMintBuf =>
            LET r == process(data, call[1], call[2]) IN
            IF call[1][1].rent_exempt
            THEN /\ r.result = "Ok"
                 /\ r.data[m].len = Mint_LEN
                 /\ Mint_bytes(r.data[m]) =
                        <<1, 0, 0, 0>> \o Pubkey_as_ref(call[2].mint_authority)
                            \o Zeros(8) \o <<call[2].decimals, 1>>
                 /\ Mint_unpack(r.data[m]) =
                        Ok([mint_authority |-> COption_Some(call[2].mint_authority),
                            supply |-> 0,
                            decimals |-> call[2].decimals,
                            is_initialized |-> TRUE])
            ELSE /\ r.result = "NotRentExempt"
                 /\ Mint_bytes(r.data[m]) = Zeros(Mint_LEN)

\* C16 witness: one mint buffer holds the bytes InitializeMint(2, 5) wrote and
\* the other is still zero-filled.
C16_Witness ==
    \E m \in MintKeys :
        /\ Mint_bytes(data[m]) =
              <<1, 0, 0, 0>> \o Pubkey_as_ref(Key(5)) \o Zeros(8) \o <<2, 1>>
        /\ \E z \in MintKeys \ {m} : Mint_bytes(data[z]) = Zeros(Mint_LEN)

\* C17: a Mint or Account value packed into a buffer of exactly LEN bytes (46,
\* 117) unpacks to the same value, whatever the buffer held, and to that value
\* under the strict unpack exactly when it is initialized; with a buffer of any
\* other length (LEN - 1 and LEN + 1 included) pack and unpack both fail with
\* InvalidAccountData and give no record.
C17_RecordRoundTrip ==
    /\ codec.op = "Mint" =>
          IF slot.len = Mint_LEN
          THEN /\ codec.packed.ok
               /\ codec.unpacked = Ok(codec.given)
               /\ codec.strict.ok <=> codec.given.is_initialized
               /\ codec.strict.ok => codec.strict = Ok(codec.given)
               /\ Len(Mint_bytes(slot)) = Mint_LEN
          ELSE /\ codec.packed = Err("InvalidAccountData")
               /\ codec.unpacked = Err("InvalidAccountData")
               /\ codec.strict = Err("InvalidAccountData")
    /\ codec.op = "Account" =>
          IF slot.len = Account_LEN
          THEN /\ codec.packed.ok
               /\ codec.unpacked = Ok(codec.given)
               /\ codec.strict.ok <=> codec.given.state = "Initialized"
               /\ codec.strict.ok => codec.strict = Ok(codec.given)
               /\ Len(Account_bytes(slot)) = Account_LEN
          ELSE /\ codec.packed = Err("InvalidAccountData")
               /\ codec.unpacked = Err("InvalidAccountData")
               /\ codec.strict = Err("InvalidAccountData")

\* C17 witness: an initialized account with a balance and no delegate, packed
\* over the bytes of an account that had one, unpacks to itself.
C17_Witness ==
    /\ codec.op = "Account"
    /\ slot.len = Account_LEN
    /\ codec.given.state = "Initialized"
    /\ codec.given.amount >= 1
    /\ ~codec.given.delegate.some
    /\ slot.delegate.body # Key(0)
    /\ codec.unpacked = Ok(codec.given)

\* The tag byte and the length of the encoding of each variant.
WireTag(instruction) ==
    CASE instruction.tag = "InitializeMint" -> 0
      [] instruction.tag = "InitializeAccount" -> 1
      [] instruction.tag = "Transfer" -> 2
      [] instruction.tag = "Approve" -> 3
      [] instruction.tag = "MintTo" -> 4
      [] instruction.tag = "Burn" -> 5

WireLen(instruction) ==
    CASE instruction.tag = "InitializeMint" -> 34
      [] instruction.tag = "InitializeAccount" -> 1
      [] OTHER -> 9

\* C18: unpack(pack(i)) = i for an instruction i of each of the six variants,
\* and pack(i) is the tag 0..5 of the variant followed by decimals and the 32
\* address bytes (34 bytes), by nothing (1 byte), or by the 8 little-endian
\* bytes of the amount (9 bytes).
C18_InstructionRoundTrip ==
    codec.op = "Instruction" =>
        LET i == codec.given
            bytes == codec.packed IN
        /\ codec.unpacked = Ok(i)
        /\ Len(bytes) = WireLen(i)
        /\ bytes[1] = WireTag(i)
        /\ \A n \in 1..Len(bytes) : bytes[n] \in 0..255
        /\ i.tag = "InitializeMint" =>
              /\ bytes[2] = i.decimals
              /\ \A n \in 3..34 : bytes[n] = i.mint_authority[n - 2]
        /\ i.tag \in {"Transfer", "Approve", "MintTo", "Burn"} =>
              /\ bytes[2] + 256 * bytes[3] + 65536 * bytes[4] + 16777216 * bytes[5]
                    = i.amount
              /\ \A n \in 6..9 : bytes[n] = 0

\* C18 witness: MintTo of the amount 0x01020304 packed to 4, 4 3 2 1 0 0 0 0
\* and unpacked to itself.
C18_Witness ==
    /\ codec.op = "Instruction"
    /\ codec.given = MintToIx(16909060)
    /\ codec.packed = <<4, 4, 3, 2, 1, 0, 0, 0, 0>>
    /\ codec.unpacked = Ok(codec.given)

\* An Approve with three handles on an initialized account, signed by its
\* owner.
OwnerApprove(bufs, call) ==
    /\ call[2].tag = "Approve"
    /\ Len(call[1]) >= 3
    /\ call[1][1].key \in AccountKeys
    /\ AccountInitialized(bufs, call[1][1].key)
    /\ call[1][3].key = AccountAt(bufs, call[1][1].key).owner
    /\ call[1][3].is_signer

\* C19: an Approve signed by the owner succeeds; a successful Approve leaves
\* the account with delegate = the second handle's address and
\* delegated_amount = amount, whatever delegate and allowance it had, with
\* amount, mint, owner and state as they were, and changes no other record.
C19_ApproveReplaces ==
    \A call \in AnyCalls :
        call[2].tag = "Approve" =>
            LET r == process(data, call[1], call[2]) IN
            /\ OwnerApprove(data, call) => r.result = "Ok"
            /\ r.result = "Ok" =>
                  /\ OwnerApprove(data, call)
                  /\ AccountAt(r.data, call[1][1].key) =
                        [AccountAt(data, call[1][1].key) EXCEPT
                            !.delegate = COption_Some(call[1][2].key),
                            !.delegated_amount = call[2].amount]
                  /\ \A k \in RecordKeys \ {call[1][1].key} : r.data[k] = data[k]

\* C19 witness: an account with a balance, a delegate and the largest
\* allowance, whose owner approves another delegate for a smaller amount.
C19_Witness ==
    \E call \in ApproveCalls :
        /\ OwnerApprove(data, call)
        /\ AccountAt(data, call[1][1].key).amount >= 1
        /\ AccountAt(data, call[1][1].key).delegate.some
        /\ AccountAt(data, call[1][1].key).delegate.key # call[1][2].key
        /\ AccountAt(data, call[1][1].key).delegated_amount = U64_MAX
        /\ call[2].amount < U64_MAX
        /\ process(data, call[1], call[2]).result = "Ok"

\* The positions of the account records and of the mint record among the
\* handles of Transfer, Approve, MintTo and Burn.
AccountPositions(instruction) ==
    CASE instruction.tag = "Transfer" -> {1, 2}
      [] instruction.tag = "Approve" -> {1}
      [] instruction.tag = "MintTo" -> {2}
      [] instruction.tag = "Burn" -> {1}

MintPositions(instruction) ==
    CASE instruction.tag = "MintTo" -> {1}
      [] instruction.tag = "Burn" -> {2}
      [] OTHER -> {}

\* The record decodes and its value is not initialized.
MintUninitialized(bufs, k) == ~Mint_is_initialized(MintAt(bufs, k))
AccountUninitialized(bufs, k) == ~Account_is_initialized(AccountAt(bufs, k))

\* Some record the call names is not an initialized record of its kind.
NamesUninitialized(bufs, call) ==
    \/ \E p \in AccountPositions(call[2]) :
          call[1][p].key \in AccountKeys => AccountUninitialized(bufs, call[1][p].key)
    \/ \E p \in MintPositions(call[2]) :
          call[1][p].key \in MintKeys => MintUninitialized(bufs, call[1][p].key)

\* C20: a Transfer, Approve, MintTo or Burn naming a record that is not
\* initialized is rejected and changes no record; no such operation changes a
\* byte of an uninitialized record, and an uninitialized record is zero-filled.
C20_InitializedOnly ==
    /\ \A k \in MintKeys : MintUninitialized(data, k) => data[k] = ZeroMintBuf
    /\ \A k \in AccountKeys : AccountUninitialized(data, k) => data[k] = ZeroAccountBuf
    /\ \A call \in AnyCalls :
          (call[2].tag \in {"Transfer", "Approve", "MintTo", "Burn"} /\ Len(call[1]) >= 3) =>
              LET r == process(data, call[1], call[2]) IN
              /\ NamesUninitialized(data, call) => r.result # "Ok" /\ r.data = data
              /\ r.data # data =>
                    /\ \A k \in MintKeys : MintUninitialized(data, k) => r.data[k] = data[k]
                    /\ \A k \in AccountKeys : AccountUninitialized(data, k) => r.data[k] = data[k]

\* C20 witness: an account with a balance and a zero-filled account buffer;
\* the owner's Transfer to the buffer and the authority's MintTo to it are
\* rejected with UninitializedAccount.
C20_Witness ==
    \E a \in AccountKeys, z \in AccountKeys :
        /\ AccountInitialized(data, a)
        /\ AccountAt(data, a).amount >= 1
        /\ data[z] = ZeroAccountBuf
        /\ process(data, <<AccountInfo(a, FALSE, TRUE), AccountInfo(z, FALSE, TRUE),
                           AccountInfo(AccountAt(data, a).owner, TRUE, FALSE)>>,
                   TransferIx(1)).result = "UninitializedAccount"
        /\ process(data, <<AccountInfo(AccountAt(data, a).mint, FALSE, TRUE),
                           AccountInfo(z, FALSE, TRUE), AccountInfo(Key(5), TRUE, FALSE)>>,
                   MintToIx(1)).result = "UninitializedAccount"

\* C21: in every reachable state an account whose delegate is none has
\* delegated_amount = 0.
C21_NoDelegateNoAllowance ==
    \A a \in AccountKeys :
        ~AccountAt(data, a).delegate.some => AccountAt(data, a).delegated_amount = 0

\* C21 witness: an initialized account whose delegate used up a positive
\* allowance and was cleared.
C21_Witness ==
    \E a \in AccountKeys :
        /\ AccountInitialized(data, a)
        /\ approved[a] >= 1
        /\ removed[a] = approved[a]
        /\ ~AccountAt(data, a).delegate.some
        /\ AccountAt(data, a).delegated_amount = 0

\* C22: in every reachable state the bytes of a record are a function of the
\* value it decodes to: two accounts, or two mints, that decode to equal values
\* hold the same bytes, and the 32 address bytes of an optional address that is
\* absent are all zero.
C22_CanonicalBytes ==
    /\ \A a \in AccountKeys, b \in AccountKeys :
          AccountAt(data, a) = AccountAt(data, b)
              => Account_bytes(data[a]) = Account_bytes(data[b])
    /\ \A m \in MintKeys, n \in MintKeys :
          MintAt(data, m) = MintAt(data, n) => Mint_bytes(data[m]) = Mint_bytes(data[n])
    /\ \A a \in AccountKeys :
          ~AccountAt(data, a).delegate.some
              => COption_bytes(data[a].delegate) = Zeros(36)
    /\ \A m \in MintKeys :
          ~MintAt(data, m).mint_authority.some
              => COption_bytes(data[m].mint_authority) = Zeros(36)

\* The bytes a variant needs after its tag.
PayloadNeeded(tag) == IF tag = 0 THEN 33 ELSE IF tag = 1 THEN 0 ELSE 8

TooShortOrUnknown(input) ==
    \/ input = <<>>
    \/ input[1] > 5
    \/ Len(input) - 1 < PayloadNeeded(input[1])

\* C23: TokenInstruction::unpack fails, with InvalidInstruction, exactly when
\* the input is empty, its first byte is above 5 or fewer bytes follow the tag
\* than the variant needs (33, 0, 8), and process then returns that error and
\* changes no record; otherwise unpack succeeds with what its first 34, 1 or 9
\* bytes decode to, whatever bytes follow, and that instruction packs to those
\* first bytes.
C23_DecodeFailsExactly ==
    \A input \in WireInputs :
        LET r == TokenInstruction_unpack(input) IN
        /\ r.ok <=> ~TooShortOrUnknown(input)
        /\ ~r.ok =>
              /\ r = Err("InvalidInstruction")
              /\ \A accounts \in SomeHandles :
                    Processor_process(data, accounts, input)
                        = Reject("InvalidInstruction", data)
        /\ r.ok =>
              /\ r = TokenInstruction_unpack(SubSeq(input, 1, 1 + PayloadNeeded(input[1])))
              /\ TokenInstruction_pack(r.val) = SubSeq(input, 1, 1 + PayloadNeeded(input[1]))
              /\ \A t \in TrailingBytes : TokenInstruction_unpack(input \o t) = r
              /\ \A accounts \in SomeHandles :
                    Processor_process(data, accounts, input)
                        = process(data, accounts, r.val)

\* C23 witness: two accounts of one mint, the first with a balance; the bytes
\* of its owner's Transfer(1) are rejected with InvalidInstruction when the
\* last is missing and accepted when another byte follows.
C23_Witness ==
    /\ \A a \in AccountKeys : AccountInitialized(data, a)
    /\ AccountAt(data, Key(3)).amount >= 1
    /\ LET accounts == <<AccountInfo(Key(3), FALSE, TRUE), AccountInfo(Key(4), FALSE, TRUE),
                         AccountInfo(AccountAt(data, Key(3)).owner, TRUE, FALSE)>> IN
         /\ Processor_process(data, accounts, <<2, 1, 0, 0, 0, 0, 0, 0>>)
               = Reject("InvalidInstruction", data)
         /\ Processor_process(data, accounts, <<2, 1, 0, 0, 0, 0, 0, 0, 0, 9>>).result = "Ok"

\* C24: in every reachable state no Transfer and no Burn returns Overflow,
\* whatever its handles and amount; of the six operations only MintTo does.
C24_OverflowOnlyMintTo ==
    \A call \in AnyCalls :
        call[2].tag # "MintTo" => process(data, call[1], call[2]).result # "Overflow"

\* C24 witness: two accounts of one mint hold the whole of u64::MAX between
\* them, each a part; a MintTo of 1 returns Overflow and the transfer of the
\* whole of one balance to the other account succeeds.
C24_Witness ==
    /\ \A a \in AccountKeys : AccountInitialized(data, a) /\ AccountAt(data, a).amount >= 1
    /\ AccountAt(data, Key(3)).mint = AccountAt(data, Key(4)).mint
    /\ AccountAt(data, Key(3)).amount + AccountAt(data, Key(4)).amount = U64_MAX
    /\ process(data, <<AccountInfo(AccountAt(data, Key(3)).mint, FALSE, TRUE),
                       AccountInfo(Key(4), FALSE, TRUE), AccountInfo(Key(5), TRUE, FALSE)>>,
               MintToIx(1)).result = "Overflow"
    /\ process(data, <<AccountInfo(Key(3), FALSE, TRUE), AccountInfo(Key(4), FALSE, TRUE),
                       AccountInfo(AccountAt(data, Key(3)).owner, TRUE, FALSE)>>,
               TransferIx(AccountAt(data, Key(3)).amount)).result = "Ok"

====
